---- MODULE Spec2Model ----
(***************************************************************************)
(* Model of optimizeServer (lib.helper.js, src/unnamed/part_000) and of    *)
(* the helpers it calls: crawler, executeOnBot, getWaitTime and            *)
(* waitWithProgress.                                                       *)
(*                                                                         *)
(* The game (the Netscript API) is the environment: the hosts and their    *)
(* RAM, the process table, the target's money and security, the clock.     *)
(* JavaScript runs a script without interruption between two awaits, so    *)
(* the game only moves while optimizeServer is suspended in                *)
(* waitWithProgress: there workers end (and give their RAM back) and the   *)
(* target's money and security change.  Root access, the scripts on the    *)
(* hosts and the RAM held by other scripts are fixed for a run.            *)
(*                                                                         *)
(* Units: RAM is counted in quarters of a GB, so that SCRIPT_RAM_COST      *)
(* (1.75 GB) is the integer 7 and Math.floor(x / 1.75) is x \div 7.        *)
(* Time is counted in milliseconds; the hack times are multiples of 5 ms,  *)
(* so that hackTime * 3.2 is a whole number.                               *)
(***************************************************************************)
EXTENDS Integers, Sequences, FiniteSets, TLC

VARIABLES
    \* ---- environment (the game) ----
    net,            \* ns.scan: host -> sequence of neighbours
    exists,         \* ns.serverExists(target)
    root,           \* ns.hasRootAccess: host -> BOOLEAN
    maxRam,         \* ns.getServerMaxRam: host -> quarter GB
    usedRam,        \* ns.getServerUsedRam: host -> quarter GB
    hasScript,      \* ns.fileExists of the worker scripts: host -> BOOLEAN
    procs,          \* process table: pid -> [script, host, threads, duration, eta, live]
    envMoney,       \* ns.getServerMoneyAvailable(target)
    envSec,         \* ns.getServerSecurityLevel(target)
    envHackTime,    \* ns.getHackTime(target)
    now,            \* performance.now()
    sleepLate,      \* by how many ms a wait of this run returns after its endTime
    worker,         \* a worker script's main(): its arguments, clock reading and delay
    timeOrigin,     \* performance.timeOrigin: Date.now() - performance.now()
    \* ---- optimizeServer: parameters and locals ----
    pc,             \* position in optimizeServer
    forceRun,
    minSec, actualSec, maxMoney, actualMoney, secDiff, moneyDiff,
    pidWeaken, pidGrow, etaWeaken, etaGrow,
    botnet, freeSlots, maxSlots, hackTime, runGrows, runWeaken,
    weakThreads, growThreads, remainingThreads,
    i,              \* position of the running for-loop in botnet
    wakeAt,         \* endTime of the running waitWithProgress
    \* ---- observation (history of what the code did) ----
    visits,         \* the executeOnBot calls of the current iteration, in order
    waveStart,      \* kind -> number of processes started before the kind was last found idle
    scanSlots,      \* host -> its free slots at the scan of the current iteration
    scanAt,         \* performance.now() at the scan of the current iteration
    passes,         \* the kinds whose allocation pass was entered in the current iteration
    iter,           \* number of loop iterations started
    waits,          \* number of waitWithProgress calls
    \* ---- crawler: locals ----
    visited,        \* the Set visited, in insertion order
    heap,           \* the array heap
    scanned,        \* host -> number of ns.scan calls for it (observation)
    \* ---- RingBuffer: fields ----
    size, buffer, currentIndex, count,
    added           \* the elements added since construction or the last clear (observation)

env  == <<net, exists, root, maxRam, usedRam, hasScript, procs, envMoney, envSec, envHackTime,
          now, sleepLate, worker, timeOrigin>>
loc  == <<pc, forceRun, minSec, actualSec, maxMoney, actualMoney, secDiff, moneyDiff,
          pidWeaken, pidGrow, etaWeaken, etaGrow, botnet, freeSlots, maxSlots, hackTime,
          runGrows, runWeaken, weakThreads, growThreads, remainingThreads, i, wakeAt>>
obs  == <<visits, waveStart, scanSlots, scanAt, passes, iter, waits>>
crawl == <<visited, heap, scanned>>
ring == <<size, buffer, currentIndex, count, added>>
lib  == <<crawl, ring>>
vars == <<env, loc, obs, lib>>

(***************************************************************************)
(* Bounds of the model                                                     *)
(***************************************************************************)
\* iterations of the convergence loop that are explored
MaxIter == 2
\* the largest RingBuffer size and the most elements added between two clears
MaxSize == 3
MaxAdds == 5

(***************************************************************************)
(* Program constants                                                       *)
(***************************************************************************)
\* 1.75 GB, in quarters of a GB
SCRIPT_RAM_COST == 7
WEAKEN_TIME_MULTIPLIER == 4
\* 3.2, in tenths
GROW_TIME_MULTIPLIER_X10 == 32
TIMING_BUFFER_MS == 20
\* the fallback wait when both ETAs have expired
FALLBACK_WAIT_MS == 3000
\* the ETA grid
ETA_GRID_MS == 100
\* Math.ceil(maxSlots / 10)
WEAKEN_SHARE == 10

(***************************************************************************)
(* The environment's domain                                                *)
(***************************************************************************)
\* n3 is a server of the game that no scan reports
Hosts == {"home", "n1", "n2", "n3"}
Kinds == {"grow", "weaken"}

\* 8 GB, 4 GB, 16 GB and 32 GB of RAM, in quarters of a GB
RamOf == [h \in Hosts |-> CASE h = "home" -> 32 [] h = "n1" -> 16 [] h = "n2" -> 64
                             [] h = "n3" -> 128]

\* the RAM other scripts hold when optimizeServer starts
AllFree     == [h \in Hosts |-> 0]
\* all but 2 GB of the smallest host
SmallBusy   == [h \in Hosts |-> IF h = "n1" THEN RamOf[h] - 8 ELSE 0]
\* all but 2 GB of the biggest host
BigBusy     == [h \in Hosts |-> IF h = "n2" THEN RamOf[h] - 8 ELSE 0]
\* all but 2 GB of the biggest host and all but 1 GB of home
BigHomeBusy == [h \in Hosts |-> CASE h = "n2" -> RamOf[h] - 8
                                  [] h = "home" -> RamOf[h] - 4
                                  [] OTHER -> 0]

AllHosts == [h \in Hosts |-> TRUE]
\* home is always rooted; n1 may not be
RootConfigs == {AllHosts, [h \in Hosts |-> h # "n1"]}
\* the worker scripts may be missing on the biggest host: ns.exec returns 0 there
ScriptConfigs == {AllHosts, [h \in Hosts |-> h # "n2"]}

\* the situations of the hosts in which optimizeServer is started
Scenarios ==
    {[used |-> u, root |-> AllHosts, script |-> AllHosts] :
        u \in {AllFree, SmallBusy, BigBusy, BigHomeBusy}}
    \cup {[used |-> AllFree, root |-> r, script |-> AllHosts] : r \in RootConfigs}
    \cup {[used |-> u, root |-> AllHosts, script |-> sc] :
            u \in {AllFree, BigHomeBusy}, sc \in ScriptConfigs}

\* a network with a cycle; every link is reported from both ends
Network == [h \in Hosts |->
              CASE h = "home" -> <<"n1", "n2">>
                [] h = "n1"   -> <<"home", "n2">>
                [] h = "n2"   -> <<"n1", "home">>
                [] h = "n3"   -> <<>>]

MoneyLevels == 0 .. 1
SecLevels   == 1 .. 2
TargetMaxMoney == CHOOSE m \in MoneyLevels : \A x \in MoneyLevels : x <= m
TargetMinSec   == CHOOSE s \in SecLevels : \A x \in SecLevels : x >= s
\* multiples of 5 ms, so that hackTime * 3.2 is a whole number of ms
HackTimes == {50, 1000}
ShortestHackTime == CHOOSE t \in HackTimes : \A x \in HackTimes : t <= x
\* how late a wait may return (ns.sleep is not exact); one lateness per run
Overshoot == {0, 7}

Min(a, b) == IF a <= b THEN a ELSE b
Max(a, b) == IF a >= b THEN a ELSE b
CeilDiv(a, b) == -((-a) \div b)
Last(s) == s[Len(s)]
Front(s) == SubSeq(s, 1, Len(s) - 1)
Range(s) == {s[k] : k \in 1 .. Len(s)}

RECURSIVE SumSeq(_)
SumSeq(s) == IF s = <<>> THEN 0 ELSE s[1] + SumSeq(Tail(s))

(***************************************************************************)
(* crawler(ns): depth-first search from 'home' with a stack (heap) and a   *)
(* visited set; the result lists the hosts in the order they were visited. *)
(***************************************************************************)
\* (mutant: only the first neighbour is put on the heap)
Neighbors_FirstOnly(scan, hostname) ==
    IF scan[hostname] = <<>> THEN <<>> ELSE <<scan[hostname][1]>>
\* const neighbors = ns.scan(hostname)
Neighbors(scan, hostname) == scan[hostname]

\* one pass of the while loop: heap.pop(), then the if block
CrawlPass(scan, seen, pile) ==
    LET hostname == Last(pile)
        rest     == Front(pile)
    IN IF hostname \notin Range(seen)
       THEN [visited |-> Append(seen, hostname), heap |-> rest \o Neighbors(scan, hostname)]
       ELSE [visited |-> seen, heap |-> rest]

RECURSIVE CrawlLoop(_, _, _)
CrawlLoop(scan, seen, pile) ==
    IF pile = <<>> THEN seen
    ELSE LET after == CrawlPass(scan, seen, pile)
         IN CrawlLoop(scan, after.visited, after.heap)

crawler(scan) == CrawlLoop(scan, <<>>, <<"home">>)

(***************************************************************************)
(* botnet = crawler(ns).filter(hasRootAccess).sort(maxRam descending).     *)
(* Array.prototype.sort is stable: hosts of equal maxRam keep their order. *)
(***************************************************************************)
\* (mutant: ascending instead of descending)
SortKeyBefore_Ascending(a, b) == maxRam[a] <= maxRam[b]
\* the comparator of the sort: a goes before b when it has at least b's maxRam
SortKeyBefore(a, b) == maxRam[a] >= maxRam[b]

RECURSIVE InsertSorted(_, _)
InsertSorted(h, sorted) ==
    IF sorted = <<>> THEN <<h>>
    ELSE IF SortKeyBefore(sorted[1], h)
         THEN <<sorted[1]>> \o InsertSorted(h, Tail(sorted))
         ELSE <<h>> \o sorted

RECURSIVE SortByMaxRam(_)
SortByMaxRam(s) ==
    IF s = <<>> THEN <<>>
    ELSE InsertSorted(Last(s), SortByMaxRam(Front(s)))

\* (mutant: every host counts as rooted)
HasRoot_Any(h) == h \in Hosts
HasRoot(h) == root[h]

Botnet == SortByMaxRam(SelectSeq(crawler(net), HasRoot))

(***************************************************************************)
(* Slot arithmetic                                                         *)
(***************************************************************************)
\* Math.floor((maxRam - usedRam) / SCRIPT_RAM_COST)
Slots(h) == (maxRam[h] - usedRam[h]) \div SCRIPT_RAM_COST

\* botnet.reduce((acc, server) => acc + slots(server), 0)
FreeSlotsOf(list) == SumSeq([k \in 1 .. Len(list) |-> Slots(list[k])])

\* ns.getRunningScript(pid): truthy while the process runs
IsRunning(pid) == pid \in 1 .. Len(procs) /\ procs[pid].live

\* (mutant: the recorded count is trusted, the process is not polled)
LiveThreads_Stale(batch) == batch.threads
\* what one recorded batch adds to the running threads
LiveThreads(batch) == IF IsRunning(batch.pid) THEN batch.threads ELSE 0

\* pidArray.reduce((acc, batch) => acc + (getRunningScript(batch.pid) ? batch.threads : 0), 0)
RunThreads(pidArray) == SumSeq([k \in 1 .. Len(pidArray) |-> LiveThreads(pidArray[k])])

\* (mutant: the running grows are not added to the pool)
MaxSlotsOf_NoGrows(free, rw, rg) == free + (IF rw > 0 THEN rw ELSE 0)
\* maxSlots after the two "maxSlots += run..." branches
MaxSlotsOf(free, rw, rg) ==
    free + (IF rw > 0 THEN rw ELSE 0) + (IF rg > 0 THEN rg ELSE 0)

\* (mutant: rounds down)
WeakThreadsOf_Floor(slots) == slots \div WEAKEN_SHARE
\* Math.ceil(maxSlots / 10)
WeakThreadsOf(slots) == CeilDiv(slots, WEAKEN_SHARE)
\* maxSlots - weakThreads
GrowThreadsOf(slots, weak) == slots - weak

\* (mutant: the host's free slots are ignored)
ThreadsForServer_NoCap(threads, slots) == threads
\* Math.min(threads, slots)
ThreadsForServer(threads, slots) == Min(threads, slots)

(***************************************************************************)
(* Times                                                                   *)
(***************************************************************************)
\* hackTime * GROW_TIME_MULTIPLIER and hackTime * WEAKEN_TIME_MULTIPLIER
GrowDuration(h)   == (h * GROW_TIME_MULTIPLIER_X10) \div 10
WeakenDuration(h) == h * WEAKEN_TIME_MULTIPLIER

\* (mutant: the rounding without the buffer)
RoundEta_NoBuffer(value) == CeilDiv(value, ETA_GRID_MS) * ETA_GRID_MS
\* (mutant: the rounding goes down)
RoundEta_Down(value) == ((value + TIMING_BUFFER_MS) \div ETA_GRID_MS) * ETA_GRID_MS
\* Math.ceil((value + TIMING_BUFFER_MS) / 100) * 100
RoundEta(value) == CeilDiv(value + TIMING_BUFFER_MS, ETA_GRID_MS) * ETA_GRID_MS

EtaWeakenAt(t, h) == RoundEta(t + WeakenDuration(h) + TIMING_BUFFER_MS * 2)
EtaGrowAt(t, h)   == RoundEta(t + GrowDuration(h) + TIMING_BUFFER_MS * 3)

\* (mutant: the grow workers are handed the ETA itself)
GrowEndArg_Eta == etaGrow
\* the end time handed to the workers
GrowEndArg   == etaGrow - TIMING_BUFFER_MS * 3
WeakenEndArg == etaWeaken - TIMING_BUFFER_MS * 2

\* getWaitTime(eta)
getWaitTime(eta) == Max(eta - now, 0)

(***************************************************************************)
(* The state when optimizeServer(ns, target, forceRun) is called           *)
(***************************************************************************)
StartTimes == {41}

\* the page was loaded long after 1970: Date.now() is far ahead of performance.now()
TimeOrigins == {100000, 1000000000}
PageLoaded == CHOOSE o \in TimeOrigins : \A x \in TimeOrigins : o <= x

\* no worker script is looked at
NoWorker == [pc |-> "none", script |-> "", operationTime |-> 0, endTime |-> 0,
             clock |-> 0, timed |-> FALSE, delay |-> 0]

\* Null stands for JavaScript's null
Null == "null"

\* crawler is not running
CrawlAtRest ==
    /\ visited = <<>> /\ heap = <<>>
    /\ scanned = [h \in Hosts |-> 0]

\* no RingBuffer is in use
RingAtRest ==
    /\ size = 1 /\ buffer = [k \in {0} |-> Null]
    /\ currentIndex = 0 /\ count = 0
    /\ added = <<>>

LibAtRest == CrawlAtRest /\ RingAtRest

Init ==
    /\ net = Network
    /\ exists \in BOOLEAN
    /\ forceRun \in BOOLEAN
    /\ \E sc \in Scenarios :
          /\ usedRam = sc.used
          /\ root = sc.root
          /\ hasScript = sc.script
    /\ maxRam = RamOf
    /\ procs = <<>>
    /\ envMoney \in MoneyLevels
    /\ envSec \in SecLevels
    /\ envHackTime \in HackTimes
    /\ now \in StartTimes
    /\ sleepLate \in Overshoot
    /\ worker = NoWorker
    /\ timeOrigin = PageLoaded
    \* a target that does not exist has no state worth varying
    /\ exists \/ ( /\ \A h \in Hosts : root[h] /\ hasScript[h] /\ usedRam[h] = 0
                   /\ envMoney = TargetMaxMoney /\ envSec = TargetMinSec
                   /\ sleepLate = 0 )
    \* the longer hack times are explored with every host free, rooted and equipped
    /\ envHackTime = ShortestHackTime
          \/ ( /\ \A h \in Hosts : root[h] /\ hasScript[h] /\ usedRam[h] = 0
                /\ sleepLate = 0 )
    /\ pc = "entry"
    /\ minSec = 0 /\ actualSec = 0 /\ maxMoney = 0 /\ actualMoney = 0
    /\ secDiff = 0 /\ moneyDiff = 0
    /\ pidWeaken = <<>> /\ pidGrow = <<>>
    /\ etaWeaken = 0 /\ etaGrow = 0
    /\ botnet = <<>> /\ freeSlots = 0 /\ maxSlots = 0 /\ hackTime = 0
    /\ runGrows = 0 /\ runWeaken = 0 /\ weakThreads = 0 /\ growThreads = 0
    /\ remainingThreads = 0 /\ i = 0 /\ wakeAt = 0
    /\ visits = <<>>
    /\ waveStart = [k \in Kinds |-> 0]
    /\ scanSlots = [h \in Hosts |-> 0]
    /\ scanAt = 0
    /\ passes = {}
    /\ iter = 0 /\ waits = 0
    /\ LibAtRest

iterLocals == <<botnet, freeSlots, maxSlots, hackTime, runGrows, runWeaken,
                weakThreads, growThreads>>
status     == <<minSec, actualSec, maxMoney, actualMoney, secDiff, moneyDiff>>
waves      == <<pidWeaken, pidGrow, etaWeaken, etaGrow>>

(***************************************************************************)
(* optimizeServer, lines 341-353: the existence check and the first read   *)
(***************************************************************************)
\* (mutant: the check is inverted)
TargetMissing_Inverted == exists
\* if (!ns.serverExists(target)) throw new Error(...)
TargetMissing == ~exists

Enter ==
    /\ pc = "entry"
    /\ IF TargetMissing
       THEN /\ pc' = "thrown"
            /\ UNCHANGED status
       ELSE /\ pc' = "guard"
            /\ minSec' = TargetMinSec
            /\ actualSec' = envSec
            /\ maxMoney' = TargetMaxMoney
            /\ actualMoney' = envMoney
            /\ secDiff' = envSec - TargetMinSec
            /\ moneyDiff' = TargetMaxMoney - envMoney
    /\ UNCHANGED <<env, lib, forceRun, waves, iterLocals, remainingThreads, i, wakeAt, obs>>

\* (mutant: the loop goes on with the security at its minimum)
LoopCondition_SecInclusive == actualSec >= minSec \/ actualMoney < maxMoney \/ forceRun
\* (mutant: the loop goes on with the money at its maximum)
LoopCondition_MoneyInclusive == actualSec > minSec \/ actualMoney <= maxMoney \/ forceRun
\* while (actualSec > minSec || actualMoney < maxMoney || forceRun)
LoopCondition == actualSec > minSec \/ actualMoney < maxMoney \/ forceRun

Guard ==
    /\ pc = "guard"
    /\ IF LoopCondition
       THEN /\ iter < MaxIter
            /\ pc' = "scan"
            /\ iter' = iter + 1
       ELSE /\ pc' = "drain"
            /\ iter' = iter
    /\ UNCHANGED <<env, lib, forceRun, status, waves, iterLocals, remainingThreads, i, wakeAt,
                   visits, waveStart, scanSlots, scanAt, passes, waits>>

(***************************************************************************)
(* lines 376-416: the scan of one iteration                                *)
(***************************************************************************)
\* the wave of a kind is re-armed when none of its recorded processes runs
NewEta(run, old, fresh) == IF run > 0 THEN old ELSE fresh
\* (mutant: the process list is never reset)
NewPids_NoReset(run, old) == old
NewPids(run, old) == IF run > 0 THEN old ELSE <<>>

Scan ==
    /\ pc = "scan"
    /\ LET bn == Botnet
           fs == FreeSlotsOf(bn)
           rg == RunThreads(pidGrow)
           rw == RunThreads(pidWeaken)
           ms == MaxSlotsOf(fs, rw, rg)
           wt == WeakThreadsOf(ms)
       IN /\ botnet' = bn
          /\ freeSlots' = fs
          /\ hackTime' = envHackTime
          /\ runGrows' = rg
          /\ runWeaken' = rw
          /\ maxSlots' = ms
          /\ etaWeaken' = NewEta(rw, etaWeaken, EtaWeakenAt(now, envHackTime))
          /\ pidWeaken' = NewPids(rw, pidWeaken)
          /\ etaGrow' = NewEta(rg, etaGrow, EtaGrowAt(now, envHackTime))
          /\ pidGrow' = NewPids(rg, pidGrow)
          /\ weakThreads' = wt
          /\ growThreads' = GrowThreadsOf(ms, wt)
          /\ waveStart' = [k \in Kinds |->
                             IF (IF k = "grow" THEN rg ELSE rw) = 0
                             THEN Len(procs) ELSE waveStart[k]]
    /\ maxMoney' = TargetMaxMoney
    /\ actualMoney' = envMoney
    /\ visits' = <<>>
    /\ scanSlots' = [h \in Hosts |-> Slots(h)]
    /\ scanAt' = now
    /\ passes' = {}
    /\ pc' = "scanned"
    /\ UNCHANGED <<env, lib, forceRun, minSec, actualSec, secDiff, moneyDiff,
                   remainingThreads, i, wakeAt, iter, waits>>

(***************************************************************************)
(* executeOnBot, lines 497-508                                             *)
(***************************************************************************)
\* (mutant: a host with a single free slot is skipped too)
NoSlots_OffByOne(slots) == slots <= 1
\* if (slots <= 0) return threads
NoSlots(slots) == slots <= 0

\* (mutant: a failed launch ends the pass)
Residual_AbortOnFailure(threads, n, pid) == IF pid > 0 THEN threads - n ELSE 0
\* (mutant: a failed launch is counted as placed)
Residual_IgnoreFailure(threads, n, pid) == threads - n
\* the value returned after ns.exec
Residual(threads, n, pid) == IF pid > 0 THEN threads - n ELSE threads

\* (mutant: a failed launch is recorded too)
Recorded_Always(pidArray, pid, n) == Append(pidArray, [pid |-> pid, threads |-> n])
\* if (pid > 0) pidArray.push({pid, threads: threadsForServer})
Recorded(pidArray, pid, n) ==
    IF pid > 0 THEN Append(pidArray, [pid |-> pid, threads |-> n]) ELSE pidArray

\* ns.exec starts the script when it is on the host, with at least one thread and
\* enough free RAM for all of them; otherwise it returns 0
ExecPossible(bot, n) ==
    hasScript[bot] /\ n >= 1 /\ n * SCRIPT_RAM_COST <= maxRam[bot] - usedRam[bot]

ScriptOf(kind) == IF kind = "grow" THEN "src/bin.grow.js" ELSE "src/bin.weaken.js"

executeOnBot(kind, bot, duration, eta) ==
    LET slots   == Slots(bot)
        threads == remainingThreads
    IN IF NoSlots(slots)
       THEN /\ remainingThreads' = threads
            /\ visits' = Append(visits,
                   [kind |-> kind, bot |-> bot, slots |-> slots, req |-> threads,
                    launched |-> FALSE, n |-> 0, pid |-> 0, ret |-> threads])
            /\ UNCHANGED <<procs, usedRam, pidGrow, pidWeaken>>
       ELSE LET n == ThreadsForServer(threads, slots) IN
            LET ok == ExecPossible(bot, n) IN
               /\ LET pid == IF ok THEN Len(procs) + 1 ELSE 0
                      ret == Residual(threads, n, pid)
                  IN /\ procs' = IF ok
                                 THEN Append(procs,
                                        [script |-> ScriptOf(kind), host |-> bot,
                                         threads |-> n, duration |-> duration,
                                         eta |-> eta, live |-> TRUE])
                                 ELSE procs
                     /\ usedRam' = IF ok
                                   THEN [usedRam EXCEPT ![bot] = @ + n * SCRIPT_RAM_COST]
                                   ELSE usedRam
                     /\ pidGrow' = IF kind = "grow" THEN Recorded(pidGrow, pid, n)
                                   ELSE pidGrow
                     /\ pidWeaken' = IF kind = "weaken" THEN Recorded(pidWeaken, pid, n)
                                     ELSE pidWeaken
                     /\ remainingThreads' = ret
                     /\ visits' = Append(visits,
                            [kind |-> kind, bot |-> bot, slots |-> slots, req |-> threads,
                             launched |-> TRUE, n |-> n, pid |-> pid, ret |-> ret])

dispatchFrame == <<lib, net, exists, root, maxRam, hasScript, envMoney, envSec, envHackTime, now,
                   sleepLate, worker, timeOrigin,
                   forceRun, status, etaWeaken, etaGrow, iterLocals, wakeAt,
                   waveStart, scanSlots, scanAt, passes, iter, waits>>

(***************************************************************************)
(* lines 418-427: the grow pass, forwards over botnet                      *)
(***************************************************************************)
\* (mutant: grows are started whatever the money)
GrowWanted_IgnoreMoney == runGrows = 0
\* (mutant: grows are started although grows are running)
GrowWanted_IgnoreRunning == moneyDiff > 0
\* if (runGrows === 0 && moneyDiff > 0)
GrowWanted == runGrows = 0 /\ moneyDiff > 0

GrowStart ==
    /\ pc = "scanned"
    /\ IF GrowWanted
       THEN /\ remainingThreads' = growThreads
            /\ i' = 1
            /\ passes' = passes \cup {"grow"}
            /\ pc' = "grow"
       ELSE /\ pc' = "weakstart"
            /\ UNCHANGED <<remainingThreads, i, passes>>
    /\ UNCHANGED <<env, lib, forceRun, status, waves, iterLocals, wakeAt,
                   visits, waveStart, scanSlots, scanAt, iter, waits>>

\* for (const bot of botnet) { if (remainingThreads <= 0) break; ... }
GrowLoopRuns == i <= Len(botnet) /\ ~(remainingThreads <= 0)

GrowStep ==
    /\ pc = "grow"
    /\ GrowLoopRuns
    /\ executeOnBot("grow", botnet[i], GrowDuration(hackTime), GrowEndArg)
    /\ i' = i + 1
    /\ pc' = "grow"
    /\ UNCHANGED dispatchFrame

GrowEnd ==
    /\ pc = "grow"
    /\ ~GrowLoopRuns
    /\ pc' = "weakstart"
    /\ UNCHANGED <<env, lib, forceRun, status, waves, iterLocals, remainingThreads, i, wakeAt, obs>>

(***************************************************************************)
(* lines 429-437: the weaken pass, backwards over botnet                   *)
(***************************************************************************)
\* if (runWeaken === 0)
WeakenWanted == runWeaken = 0

\* (mutant: the weaken pass starts at the front of the list)
WeakenFirstIndex_Front == Min(1, Len(botnet))
\* for (let i = botnet.length - 1; ...): the first index of the pass (1-based)
WeakenFirstIndex == Len(botnet)

WeakenStart ==
    /\ pc = "weakstart"
    /\ IF WeakenWanted
       THEN /\ remainingThreads' = weakThreads
            /\ i' = WeakenFirstIndex
            /\ passes' = passes \cup {"weaken"}
            /\ pc' = "weaken"
       ELSE /\ pc' = "dispatched"
            /\ UNCHANGED <<remainingThreads, i, passes>>
    /\ UNCHANGED <<env, lib, forceRun, status, waves, iterLocals, wakeAt,
                   visits, waveStart, scanSlots, scanAt, iter, waits>>

\* for (...; i >= 0; i--) { if (remainingThreads <= 0) break; ... }  (1-based here)
WeakenLoopRuns == i >= 1 /\ ~(remainingThreads <= 0)

WeakenStep ==
    /\ pc = "weaken"
    /\ WeakenLoopRuns
    /\ executeOnBot("weaken", botnet[i], WeakenDuration(hackTime), WeakenEndArg)
    /\ i' = i - 1
    /\ pc' = "weaken"
    /\ UNCHANGED dispatchFrame

WeakenEnd ==
    /\ pc = "weaken"
    /\ ~WeakenLoopRuns
    /\ pc' = "dispatched"
    /\ UNCHANGED <<env, lib, forceRun, status, waves, iterLocals, remainingThreads, i, wakeAt, obs>>

(***************************************************************************)
(* lines 439-455: forceRun leaves the loop, otherwise wait for the next ETA*)
(***************************************************************************)
\* break: control continues at line 471 behind the loop
ForceBreak ==
    /\ pc = "dispatched"
    /\ forceRun
    /\ pc' = "drain"
    /\ UNCHANGED <<env, lib, forceRun, status, waves, iterLocals, remainingThreads, i, wakeAt, obs>>

\* lines 446-449: the ETA the iteration waits for
NextEta ==
    LET first == IF etaWeaken < etaGrow THEN etaWeaken ELSE etaGrow
    IN IF first < now
       THEN (IF etaWeaken > etaGrow THEN etaWeaken ELSE etaGrow)
       ELSE first

\* (mutant: the wait is capped by a fixed interval)
IterationWait_Capped ==
    LET waitTime == getWaitTime(NextEta)
    IN IF waitTime > 0 THEN Min(waitTime, FALLBACK_WAIT_MS) ELSE FALLBACK_WAIT_MS
\* lines 450-455: the milliseconds handed to waitWithProgress
IterationWait ==
    LET waitTime == getWaitTime(NextEta)
    IN IF waitTime > 0 THEN waitTime ELSE FALLBACK_WAIT_MS

WaitStart ==
    /\ pc = "dispatched"
    /\ ~forceRun
    /\ wakeAt' = now + IterationWait
    /\ waits' = waits + 1
    /\ pc' = "waiting"
    /\ UNCHANGED <<env, lib, forceRun, status, waves, iterLocals, remainingThreads, i,
                   visits, waveStart, scanSlots, scanAt, passes, iter>>

(***************************************************************************)
(* waitWithProgress, lines 81-136: returns once performance.now() has      *)
(* reached endTime; with endTime already reached it returns at once.       *)
(***************************************************************************)
WaitReturn(late) == IF now < wakeAt THEN wakeAt + late ELSE now

Waiting == pc \in {"waiting", "waitweaken", "draining"}

AfterWait == CASE pc = "waiting"    -> "refresh"
               [] pc = "waitweaken" -> "readsec"
               [] pc = "draining"   -> "done"

WaitEnd ==
    /\ Waiting
    /\ now' = WaitReturn(sleepLate)
    /\ pc' = AfterWait
    /\ UNCHANGED <<lib, worker, timeOrigin, net, exists, root, maxRam, usedRam, hasScript, procs, envMoney, envSec,
                   envHackTime, sleepLate, forceRun, status, waves, iterLocals, remainingThreads, i, wakeAt, obs>>

(***************************************************************************)
(* lines 457-468: refresh the target's state for the next iteration        *)
(***************************************************************************)
\* (mutant: the wait is for the grow ETA)
LastWeakenWait_Grow == etaGrow - now
\* line 463: etaWeaken.value - performance.now()
LastWeakenWait == etaWeaken - now

RefreshMoney ==
    /\ pc = "refresh"
    /\ maxMoney' = TargetMaxMoney
    /\ actualMoney' = envMoney
    /\ moneyDiff' = TargetMaxMoney - envMoney
    /\ IF moneyDiff' = 0
       THEN \* waitWithProgress(ns, etaWeaken.value - performance.now(), ...)
            /\ wakeAt' = now + LastWeakenWait
            /\ waits' = waits + 1
            /\ pc' = "waitweaken"
       ELSE /\ pc' = "readsec"
            /\ UNCHANGED <<wakeAt, waits>>
    /\ UNCHANGED <<env, lib, forceRun, minSec, actualSec, secDiff, waves, iterLocals,
                   remainingThreads, i, visits, waveStart, scanSlots, scanAt, passes, iter>>

ReadSec ==
    /\ pc = "readsec"
    /\ minSec' = TargetMinSec
    /\ actualSec' = envSec
    /\ secDiff' = envSec - TargetMinSec
    /\ pc' = "guard"
    /\ UNCHANGED <<env, lib, forceRun, maxMoney, actualMoney, moneyDiff, waves, iterLocals,
                   remainingThreads, i, wakeAt, obs>>

(***************************************************************************)
(* lines 471-478: the final drain                                          *)
(***************************************************************************)
\* (mutant: the drain waits for the earlier ETA only)
DrainWait_Earlier == Min(etaWeaken, etaGrow) - now
DrainWait == Max(etaWeaken, etaGrow) - now

\* (mutant: the drain is taken by the forced run instead)
CleanupWanted_Inverted == forceRun
\* line 471: if (!forceRun)
CleanupWanted == ~forceRun

Drain ==
    /\ pc = "drain"
    /\ IF CleanupWanted /\ DrainWait > 0
       THEN /\ wakeAt' = now + DrainWait
            /\ waits' = waits + 1
            /\ pc' = "draining"
       ELSE /\ pc' = "done"
            /\ UNCHANGED <<wakeAt, waits>>
    /\ UNCHANGED <<env, lib, forceRun, status, waves, iterLocals, remainingThreads, i,
                   visits, waveStart, scanSlots, scanAt, passes, iter>>

(***************************************************************************)
(* The game, while optimizeServer is suspended in a wait: workers end and  *)
(* give their RAM back, the target's money and security move.              *)
(***************************************************************************)
ProcEnd ==
    /\ Waiting
    /\ \E p \in 1 .. Len(procs) :
          /\ procs[p].live
          /\ procs' = [procs EXCEPT ![p].live = FALSE]
          /\ usedRam' = [usedRam EXCEPT ![procs[p].host] = @ - procs[p].threads * SCRIPT_RAM_COST]
    /\ UNCHANGED <<lib, worker, timeOrigin, net, exists, root, maxRam, hasScript, envMoney, envSec, envHackTime, now,
                   sleepLate, loc, obs>>

TargetMoves ==
    /\ Waiting
    /\ \E m \in MoneyLevels, s \in SecLevels :
          /\ <<m, s>> # <<envMoney, envSec>>
          /\ envMoney' = m
          /\ envSec' = s
    /\ UNCHANGED <<lib, worker, timeOrigin, net, exists, root, maxRam, usedRam, hasScript, procs, envHackTime, now,
                   sleepLate, loc, obs>>

Next ==
    \/ Enter
    \/ Guard
    \/ Scan
    \/ GrowStart
    \/ GrowStep
    \/ GrowEnd
    \/ WeakenStart
    \/ WeakenStep
    \/ WeakenEnd
    \/ ForceBreak
    \/ WaitStart
    \/ WaitEnd
    \/ RefreshMoney
    \/ ReadSec
    \/ Drain
    \/ ProcEnd
    \/ TargetMoves

Spec == Init /\ [][Next]_vars

(***************************************************************************)
(* The allocation loop of lines 422-425 on its own: the hosts' free slots  *)
(* in visiting order, every ns.exec succeeding.  given lists the thread    *)
(* counts handed to ns.exec, one per visited host (0 for a skipped host).  *)
(***************************************************************************)
RECURSIVE AllocatePass(_, _)
AllocatePass(slotList, threads) ==
    IF slotList = <<>> \/ threads <= 0
    THEN [given |-> <<>>, residual |-> threads]
    ELSE LET slots == Head(slotList)
             n     == IF NoSlots(slots) THEN 0 ELSE ThreadsForServer(threads, slots)
             ret   == IF NoSlots(slots) THEN threads ELSE Residual(threads, n, 1)
             rest  == AllocatePass(Tail(slotList), ret)
         IN [given |-> <<n>> \o rest.given, residual |-> rest.residual]

(***************************************************************************)
(* Vocabulary of the properties                                            *)
(***************************************************************************)
IsGrowVisit(v)   == v.kind = "grow"
IsWeakenVisit(v) == v.kind = "weaken"
GrowVisits   == SelectSeq(visits, IsGrowVisit)
WeakenVisits == SelectSeq(visits, IsWeakenVisit)
VisitsOf(kind) == IF kind = "grow" THEN GrowVisits ELSE WeakenVisits

\* the threads of the successful launches among a sequence of visits
Started(vs) == SumSeq([k \in 1 .. Len(vs) |-> IF vs[k].pid > 0 THEN vs[k].n ELSE 0])

Requested(kind) == IF kind = "grow" THEN growThreads ELSE weakThreads

\* a pass of the kind is running or has run in the current iteration
PassEntered(kind) == kind \in passes
\* the residual of the pass so far: what the last executeOnBot returned
PassResidual(kind) ==
    IF VisitsOf(kind) = <<>> THEN Requested(kind) ELSE Last(VisitsOf(kind)).ret

\* positions between the scan of an iteration and its wait
Dispatching == pc \in {"scanned", "grow", "weakstart", "weaken", "dispatched"}

\* C1: the thread count handed to ns.exec never exceeds the host's free slots as
\* they are at that moment, and a host without a free slot is skipped: no launch,
\* no error, the residual handed on unchanged.
C1_LaunchWithinFreeSlots ==
    /\ \A k \in 1 .. Len(visits) :
          LET v == visits[k] IN
          /\ v.launched => (1 <= v.n /\ v.n <= v.slots)
          /\ v.slots <= 0 => (~v.launched /\ v.pid = 0 /\ v.ret = v.req)
          /\ k < Len(visits) /\ visits[k + 1].kind = v.kind => visits[k + 1].req = v.ret
    /\ \A p \in 1 .. Len(procs) :
          procs[p].threads * SCRIPT_RAM_COST <= maxRam[procs[p].host]
    /\ \A h \in Hosts : usedRam[h] <= maxRam[h]
    /\ pc = "thrown" => visits = <<>>

\* a host without free slots was skipped with threads still to place, and another
\* host was given fewer threads than asked for because it had no more slots
C1_Witness ==
    /\ \E k \in 1 .. Len(visits) : visits[k].slots = 0 /\ visits[k].req > 0
    /\ \E k \in 1 .. Len(visits) :
          visits[k].launched /\ visits[k].n = visits[k].slots /\ visits[k].n < visits[k].req

\* C2: in every pass the threads of the successful launches plus the residual are
\* exactly the requested count, and the residual is never negative.
C2_Conservation ==
    /\ \A kind \in Kinds :
          PassEntered(kind) =>
             /\ Started(VisitsOf(kind)) + PassResidual(kind) = Requested(kind)
             /\ PassResidual(kind) >= 0
             /\ \A k \in 1 .. Len(VisitsOf(kind)) : VisitsOf(kind)[k].ret >= 0
    /\ pc = "grow" => remainingThreads = PassResidual("grow")
    /\ pc = "weaken" => remainingThreads = PassResidual("weaken")

\* a finished pass with a successful launch, a failed launch and a skipped host
C2_Witness ==
    /\ pc = "dispatched"
    /\ \E kind \in Kinds :
          LET vs == VisitsOf(kind) IN
          /\ \E k \in 1 .. Len(vs) : vs[k].pid > 0
          /\ \E k \in 1 .. Len(vs) : vs[k].launched /\ vs[k].pid = 0
          /\ \E k \in 1 .. Len(vs) : ~vs[k].launched
          /\ PassResidual(kind) > 0

\* the pool sizes the split is also checked for, beyond the reachable ones
SlotRange == 0 .. 120

\* C3: weakThreads is the ceiling of maxSlots / 10, growThreads is the rest and is
\* not negative; 100 slots give 10 and 90.
C3_ThreadSplit ==
    /\ maxSlots >= 0
    /\ WEAKEN_SHARE * weakThreads >= maxSlots
    /\ WEAKEN_SHARE * (weakThreads - 1) < maxSlots
    /\ weakThreads + growThreads = maxSlots
    /\ growThreads >= 0
    /\ WeakThreadsOf(100) = 10
    /\ GrowThreadsOf(100, WeakThreadsOf(100)) = 90
    /\ pc = "scanned" => \A m \in SlotRange :
          LET w == WeakThreadsOf(m)
              g == GrowThreadsOf(m, w)
          IN /\ WEAKEN_SHARE * w >= m /\ WEAKEN_SHARE * (w - 1) < m
             /\ w + g = m /\ g >= 0

\* an iteration whose pool is not a multiple of 10, and one whose pool is
C3_Witness ==
    /\ iter >= 1
    /\ Dispatching
    /\ maxSlots > WEAKEN_SHARE
    /\ maxSlots % WEAKEN_SHARE # 0
    /\ weakThreads = 2

\* C4 as claimed: whenever host A is offered grow threads before host B in the same
\* pass, A's free slots at the scan are at least B's.
C4_GrowByFreeCapacity ==
    \A a, b \in 1 .. Len(GrowVisits) :
       a < b => scanSlots[GrowVisits[a].bot] >= scanSlots[GrowVisits[b].bot]

\* C4 as amended: the grow pass visits the hosts in the order of descending maximum RAM:
\* whenever A is offered grow threads before B, A's maxRam is at least B's.
C4_GrowByMaxRam ==
    /\ \A a, b \in 1 .. Len(GrowVisits) :
          a < b => maxRam[GrowVisits[a].bot] >= maxRam[GrowVisits[b].bot]
    /\ \A k \in 1 .. Len(GrowVisits) : GrowVisits[k].bot = botnet[k]

\* a grow pass that offered threads to a host before one with more free slots
C4_Witness ==
    \E a, b \in 1 .. Len(GrowVisits) :
       /\ a < b
       /\ scanSlots[GrowVisits[a].bot] < scanSlots[GrowVisits[b].bot]
       /\ maxRam[GrowVisits[a].bot] > maxRam[GrowVisits[b].bot]
       /\ GrowVisits[a].launched /\ GrowVisits[b].launched

\* the weaken pass has ended
WeakenPassOver == PassEntered("weaken") /\ pc \notin {"weaken"}

\* C5: the weaken pass walks the list of the grow pass from its last host backwards
\* and stops as soon as its residual is 0 (or the list is exhausted).
C5_WeakenReverse ==
    /\ \A k \in 1 .. Len(GrowVisits) : GrowVisits[k].bot = botnet[k]
    /\ Len(WeakenVisits) <= Len(botnet)
    /\ \A k \in 1 .. Len(WeakenVisits) :
          /\ WeakenVisits[k].bot = botnet[Len(botnet) + 1 - k]
          /\ WeakenVisits[k].req > 0
    /\ WeakenPassOver =>
          \/ PassResidual("weaken") = 0
          \/ Len(WeakenVisits) = Len(botnet)

\* both passes of one iteration went over at least two of three hosts
C5_Witness ==
    /\ pc = "dispatched"
    /\ Len(botnet) = 3
    /\ Len(GrowVisits) >= 2
    /\ Len(WeakenVisits) >= 2
    /\ PassResidual("weaken") = 0
    /\ WeakenVisits[1].bot # GrowVisits[1].bot

\* no launch of the sequence of visits failed
NoFailure(vs) == \A k \in 1 .. Len(vs) : vs[k].launched => vs[k].pid > 0

\* the free slots of the hosts of the list when the pass of the kind starts
FreeAtPassStart(kind) ==
    IF kind = "grow" \/ ~PassEntered("grow") THEN freeSlots
    ELSE freeSlots - Started(GrowVisits)

PassOver(kind) ==
    /\ PassEntered(kind)
    /\ IF kind = "grow" THEN pc # "grow" ELSE pc # "weaken"

\* C6: a pass is greedy and complete: a visited host with free slots is handed
\* min(residual, free slots) threads, no host is visited once the residual is 0, and
\* without a failed launch and with enough free slots in the list the residual is 0.
C6_GreedyComplete ==
    /\ \A k \in 1 .. Len(visits) :
          LET v == visits[k] IN
          /\ v.req > 0
          /\ v.slots > 0 => (v.launched /\ v.n = Min(v.req, v.slots))
    /\ \A kind \in Kinds :
          (PassOver(kind) /\ NoFailure(VisitsOf(kind))
              /\ FreeAtPassStart(kind) >= Requested(kind))
            => PassResidual(kind) = 0
    /\ (PassOver("grow") /\ NoFailure(GrowVisits)) =>
          LET r == AllocatePass([k \in 1 .. Len(botnet) |-> scanSlots[botnet[k]]], growThreads)
          IN /\ r.residual = PassResidual("grow")
             /\ r.given = [k \in 1 .. Len(GrowVisits) |-> GrowVisits[k].n]
    /\ AllocatePass(<<50, 30, 20, 0>>, 70) = [given |-> <<50, 20>>, residual |-> 0]

\* a finished grow pass without failure that filled one host, skipped a host without
\* slots and placed the rest on a third
C6_Witness ==
    /\ PassOver("grow")
    /\ NoFailure(GrowVisits)
    /\ PassResidual("grow") = 0
    /\ Len(GrowVisits) = 3
    /\ GrowVisits[1].n = GrowVisits[1].slots
    /\ ~GrowVisits[2].launched
    /\ GrowVisits[3].n >= 1

PidsOf(kind) == IF kind = "grow" THEN pidGrow ELSE pidWeaken
EtaOf(kind)  == IF kind = "grow" THEN etaGrow ELSE etaWeaken
RunOf(kind)  == IF kind = "grow" THEN runGrows ELSE runWeaken

\* the processes of a kind that were ever started
ProcsOf(kind) == {p \in 1 .. Len(procs) : procs[p].script = ScriptOf(kind)}

\* some, resp. not every, recorded process of the kind is running
SomeLive(kind) == \E k \in 1 .. Len(PidsOf(kind)) : IsRunning(PidsOf(kind)[k].pid)
SomeDead(kind) == \E k \in 1 .. Len(PidsOf(kind)) : ~IsRunning(PidsOf(kind)[k].pid)

\* C7: in an iteration whose poll reports a live process of a kind, no worker of that
\* kind is launched and the kind's ETA and process list stay as they were.
C7_OneWavePerKind ==
    [][ /\ (pc = "scan" /\ pc' = "scanned") =>
              \A kind \in Kinds : (RunOf(kind)' > 0) <=> SomeLive(kind)
        /\ Dispatching' =>
              \A kind \in Kinds :
                 RunOf(kind)' > 0 =>
                    /\ PidsOf(kind)' = PidsOf(kind)
                    /\ EtaOf(kind)' = EtaOf(kind)
                    /\ ProcsOf(kind)' = ProcsOf(kind)
                    /\ VisitsOf(kind)' = <<>>
                    /\ ~PassEntered(kind)'
      ]_vars

\* an iteration found a grow wave of which only a part still runs, dispatched no grow
\* and dispatched a weaken wave
C7_Witness ==
    /\ pc = "dispatched"
    /\ runGrows > 0
    /\ SomeLive("grow") /\ SomeDead("grow")
    /\ PassEntered("weaken") /\ Started(WeakenVisits) > 0
    /\ ~PassEntered("grow")

\* the ETA a kind gets when it is re-armed at the scan of the current iteration
FreshEta(kind) ==
    IF kind = "grow" THEN EtaGrowAt(scanAt, hackTime) ELSE EtaWeakenAt(scanAt, hackTime)

\* the wave of the kind was found idle at the poll of the current iteration
Idle(kind) == RunOf(kind) = 0

\* C8 as claimed: in every iteration in which a kind is idle, grow as well as weaken,
\* its ETA is recomputed, its list reset, and its allocation pass run.
C8_IdleAlwaysDispatches ==
    \A kind \in Kinds :
       /\ (pc = "scanned" /\ Idle(kind)) =>
             (EtaOf(kind) = FreshEta(kind) /\ PidsOf(kind) = <<>>)
       /\ (pc = "dispatched" /\ Idle(kind)) => PassEntered(kind)

\* C8 as amended: in every iteration in which a kind is idle its ETA is recomputed and
\* its list reset; the weaken pass is then run in the same iteration, the grow pass
\* only if the money difference of the last refresh (moneyDiff) is positive.
C8_IdleRearms ==
    /\ \A kind \in Kinds :
          (pc = "scanned" /\ Idle(kind)) =>
             (EtaOf(kind) = FreshEta(kind) /\ PidsOf(kind) = <<>>)
    /\ pc = "dispatched" =>
          /\ Idle("weaken") => PassEntered("weaken")
          /\ (Idle("grow") /\ moneyDiff > 0) => PassEntered("grow")
          /\ (Idle("grow") /\ ~(moneyDiff > 0)) => ~PassEntered("grow")
    /\ \A kind \in Kinds : (Dispatching /\ Idle(kind)) => EtaOf(kind) = FreshEta(kind)

\* a later iteration found both kinds idle after a wave of each, re-armed both and
\* dispatched only weaken, the money being at its maximum
C8_Witness ==
    /\ pc = "dispatched"
    /\ iter >= 2
    /\ Idle("grow") /\ Idle("weaken")
    /\ waveStart["grow"] > 0
    /\ ProcsOf("grow") # {}
    /\ moneyDiff = 0
    /\ PassEntered("weaken") /\ ~PassEntered("grow")
    /\ etaGrow = FreshEta("grow")

\* the free slots of a set of hosts, the threads of a set of processes
RECURSIVE SlotsOfHosts(_)
SlotsOfHosts(S) ==
    IF S = {} THEN 0
    ELSE LET h == CHOOSE y \in S : TRUE
         IN (maxRam[h] - usedRam[h]) \div SCRIPT_RAM_COST + SlotsOfHosts(S \ {h})

RECURSIVE ThreadsOfProcs(_)
ThreadsOfProcs(S) ==
    IF S = {} THEN 0
    ELSE LET p == CHOOSE y \in S : TRUE IN procs[p].threads + ThreadsOfProcs(S \ {p})

LiveProcs(kind) == {p \in ProcsOf(kind) : procs[p].live}
RootedHosts == {h \in Range(crawler(net)) : root[h]}

\* C9: the pool is the free slots of all rooted hosts plus the threads of the live
\* weaken processes plus the threads of the live grow processes.
C9_CapacityPool ==
    pc = "scanned" =>
       /\ maxSlots = SlotsOfHosts(RootedHosts)
                     + ThreadsOfProcs(LiveProcs("weaken"))
                     + ThreadsOfProcs(LiveProcs("grow"))
       /\ freeSlots = SlotsOfHosts(RootedHosts)
       /\ runWeaken = ThreadsOfProcs(LiveProcs("weaken"))
       /\ runGrows = ThreadsOfProcs(LiveProcs("grow"))

\* a scan that found both waves running, one process of each wave having ended
C9_Witness ==
    /\ pc = "scanned"
    /\ runGrows > 0 /\ runWeaken > 0
    /\ SomeDead("grow") /\ SomeDead("weaken")
    /\ freeSlots > 0

\* the successful launches of the current wave of the kind, in launch order
CurrentWave(kind) ==
    LET ps == SelectSeq([p \in 1 .. Len(procs) |-> p],
                        LAMBDA p : p > waveStart[kind] /\ procs[p].script = ScriptOf(kind))
    IN [k \in 1 .. Len(ps) |-> [pid |-> ps[k], threads |-> procs[ps[k]].threads]]

\* C10: the process list of a kind holds exactly one entry (pid, threads) for every
\* successful launch of the kind's current wave, with the threads given to ns.exec;
\* none for a failed launch, the other kind or an earlier wave.
C10_RecordedLaunches ==
    \A kind \in Kinds :
       /\ PidsOf(kind) = CurrentWave(kind)
       /\ \A k \in 1 .. Len(PidsOf(kind)) :
             /\ PidsOf(kind)[k].pid > 0
             /\ PidsOf(kind)[k].threads >= 1
       /\ \A k \in 1 .. Len(VisitsOf(kind)) :
             LET v == VisitsOf(kind)[k] IN
             v.pid > 0 => \E j \in 1 .. Len(PidsOf(kind)) :
                             PidsOf(kind)[j] = [pid |-> v.pid, threads |-> v.n]

\* a second grow wave with two recorded launches, a third launch of it having failed
C10_Witness ==
    /\ waveStart["grow"] > 0
    /\ ProcsOf("grow") \cap (1 .. waveStart["grow"]) # {}
    /\ Len(pidGrow) >= 2
    /\ \E k \in 1 .. Len(GrowVisits) : GrowVisits[k].launched /\ GrowVisits[k].pid = 0

(***************************************************************************)
(* A launch that fails (ns.exec returns 0)                                 *)
(***************************************************************************)
\* ns.exec was called for the host and returned 0
Failed(v) == v.launched /\ v.pid = 0

\* the successful launches among the visits of a kind
Successes(kind) == {k \in 1 .. Len(VisitsOf(kind)) : VisitsOf(kind)[k].pid > 0}

\* C11: a launch that returns 0 neither aborts the wave nor is retried: nothing is
\* recorded for it, the residual goes unchanged to the next host, the remaining
\* hosts are still tried, and the iteration goes on to its wait without an error.
C11_FailureIsLocal ==
    /\ \A kind \in Kinds :
          LET vs == VisitsOf(kind) IN
          /\ \A k \in 1 .. Len(vs) :
                Failed(vs[k]) =>
                   /\ vs[k].ret = vs[k].req
                   /\ vs[k].req > 0
                   /\ k < Len(vs) => vs[k + 1].req = vs[k].req
                   /\ PassOver(kind) => Len(vs) = Len(botnet)
                   /\ \A j \in 1 .. Len(vs) : j # k => vs[j].bot # vs[k].bot
          /\ PassEntered(kind) => Len(PidsOf(kind)) = Cardinality(Successes(kind))
    /\ visits # <<>> => pc # "thrown"
    /\ (pc = "dispatched" /\ ~forceRun) => ENABLED WaitStart

\* the iteration waits after a pass in which the launch failed on one host and
\* succeeded on the next one
C11_Witness ==
    /\ pc = "waiting"
    /\ \E kind \in Kinds :
          \E k \in 1 .. Len(VisitsOf(kind)) - 1 :
             Failed(VisitsOf(kind)[k]) /\ VisitsOf(kind)[k + 1].pid > 0

(***************************************************************************)
(* The error raised at entry                                               *)
(***************************************************************************)
\* optimizeServer has not scanned, launched or waited
NothingDone ==
    /\ iter = 0 /\ waits = 0
    /\ botnet = <<>> /\ visits = <<>> /\ procs = <<>>

\* a pass of the current iteration fell short or had a launch fail
Shortfall ==
    \E kind \in Kinds :
       PassOver(kind) /\
          (PassResidual(kind) > 0 \/ \E k \in 1 .. Len(VisitsOf(kind)) : Failed(VisitsOf(kind)[k]))

\* C12: with a target that does not exist optimizeServer throws before any scan,
\* launch or wait, with forceRun too; with a target that exists it never throws,
\* whatever falls short or fails in the allocation.
C12_ThrowsOnlyForMissingTarget ==
    /\ ~exists => (pc \in {"entry", "thrown"} /\ NothingDone)
    /\ pc = "thrown" => (~exists /\ NothingDone)
    /\ exists => pc # "thrown"
    /\ Shortfall => pc # "thrown"

\* a forced run for a target that does not exist has thrown
C12_Witness == pc = "thrown" /\ forceRun /\ ~exists

\* a run for an existing target has returned although its last passes fell short
C12_ShortfallReturns == pc = "done" /\ exists /\ Shortfall

(***************************************************************************)
(* Leaving the loop                                                        *)
(***************************************************************************)
\* the last readings of the target: security at its minimum, money at its maximum
AtOptimum == actualSec = minSec /\ actualMoney = maxMoney

\* C13: without forceRun, once the readings are security = minimum and money =
\* maximum the next guard check leaves the loop, no further worker is dispatched,
\* and optimizeServer returns after a drain wait that is never negative.
C13_ExitAtOptimum ==
    [][ /\ (pc = "guard" /\ ~forceRun /\ AtOptimum) =>
              (pc' = "drain" /\ iter' = iter /\ procs' = procs /\ visits' = visits)
        /\ (pc \in {"drain", "draining"} /\ ~forceRun) =>
              /\ pc' \in {"draining", "done"}
              /\ iter' = iter /\ Len(procs') = Len(procs) /\ visits' = visits
        /\ (pc = "drain" /\ pc' = "draining") => (wakeAt' - now = DrainWait /\ DrainWait > 0)
        /\ (pc = "drain" /\ pc' = "done" /\ ~forceRun) => (DrainWait <= 0 /\ waits' = waits)
        /\ (pc = "draining" /\ pc' = "done") => now' >= wakeAt
      ]_vars

\* a run has returned from its drain wait: the readings were at the optimum after
\* an iteration, and the later ETA, the grow wave's, was still ahead
C13_Witness ==
    /\ pc = "done" /\ ~forceRun
    /\ iter >= 1 /\ AtOptimum
    /\ etaGrow > etaWeaken
    /\ wakeAt = etaGrow /\ now = wakeAt + sleepLate

\* C14: with forceRun and an existing target optimizeServer makes exactly one
\* scan/allocate/dispatch pass, whatever the target's security and money, and
\* returns without a single call of waitWithProgress.
C14_ForcedRunIsOnePass ==
    (forceRun /\ exists) =>
       /\ waits = 0
       /\ pc \notin {"waiting", "refresh", "waitweaken", "readsec", "draining", "thrown"}
       /\ now \in StartTimes
       /\ iter <= 1
       /\ pc \in {"drain", "done"} =>
             /\ iter = 1
             /\ botnet = Botnet
             /\ PassEntered("weaken")
             /\ PassEntered("grow") <=> moneyDiff > 0

\* a forced run for a target that is already at its optimum has launched workers
\* and returned
C14_Witness ==
    /\ forceRun /\ pc = "done"
    /\ envSec = TargetMinSec /\ envMoney = TargetMaxMoney
    /\ iter = 1 /\ procs # <<>>

\* C15: without forceRun optimizeServer does not return before the later of the two
\* ETAs: at the return performance.now() >= max(etaWeaken, etaGrow), and so no
\* worker it started has an end-time argument that is still ahead.
C15_ReturnsAfterBothEtas ==
    (pc = "done" /\ ~forceRun) =>
       /\ now >= Max(etaWeaken, etaGrow)
       /\ now >= etaWeaken /\ now >= etaGrow
       /\ \A p \in 1 .. Len(procs) : procs[p].eta <= now

\* a run that started workers of both kinds, with different ETAs, has returned at
\* the later ETA
C15_Witness ==
    /\ pc = "done" /\ ~forceRun
    /\ ProcsOf("grow") # {} /\ ProcsOf("weaken") # {}
    /\ etaWeaken # etaGrow
    /\ now = Max(etaWeaken, etaGrow)

(***************************************************************************)
(* The wait of an iteration, lines 445-455                                 *)
(***************************************************************************)
EarlierEta == Min(etaWeaken, etaGrow)
LaterEta   == Max(etaWeaken, etaGrow)

\* the iteration's waitWithProgress is running and no time has passed yet
WaitBegun == pc = "waiting"

\* C16 (positive part): the wait of an iteration is never zero or negative.
C16_PositiveWait == WaitBegun => wakeAt > now

\* C16: the wait of an iteration lasts until the earlier ETA if that is still ahead,
\* otherwise until the later ETA if that is ahead, and exactly 3000 ms when both
\* ETAs have passed; it is never zero or negative.
C16_WaitRule ==
    WaitBegun =>
       /\ wakeAt > now
       /\ EarlierEta > now => wakeAt = EarlierEta
       /\ (EarlierEta <= now /\ LaterEta > now) => wakeAt = LaterEta
       /\ LaterEta <= now => wakeAt = now + FALLBACK_WAIT_MS

\* the earlier ETA is reached exactly while the later one is still ahead
C16_EarlierEtaJustReached == WaitBegun /\ EarlierEta = now /\ LaterEta > now

\* how far ahead of its computation an ETA can lie at most: the weaken duration,
\* the buffers of lines 395 and 397 and less than one step of the grid
MaxEtaLead(h) == WeakenDuration(h) + TIMING_BUFFER_MS * 3 + ETA_GRID_MS - 1

MaxEtaTime == 119
EtaTimes == 0 .. MaxEtaTime
\* multiples of 5 ms, so that hackTime * 3.2 is a whole number of ms
EtaHackTimes == {5, 20, 25, 50, 1000}

\* the game with every host free, rooted and equipped, the target at its optimum
GameAtRest ==
    /\ net = Network
    /\ exists = TRUE
    /\ usedRam = AllFree /\ root = AllHosts /\ hasScript = AllHosts
    /\ maxRam = RamOf
    /\ procs = <<>>
    /\ envMoney = TargetMaxMoney
    /\ envSec = TargetMinSec
    /\ sleepLate = 0
    /\ timeOrigin \in TimeOrigins

\* optimizeServer's locals before its first statement
SchedulerAtRest ==
    /\ forceRun = FALSE
    /\ minSec = 0 /\ actualSec = 0 /\ maxMoney = 0 /\ actualMoney = 0
    /\ secDiff = 0 /\ moneyDiff = 0
    /\ pidWeaken = <<>> /\ pidGrow = <<>>
    /\ etaWeaken = 0 /\ etaGrow = 0
    /\ botnet = <<>> /\ freeSlots = 0 /\ maxSlots = 0 /\ hackTime = 0
    /\ runGrows = 0 /\ runWeaken = 0 /\ weakThreads = 0 /\ growThreads = 0
    /\ remainingThreads = 0 /\ i = 0 /\ wakeAt = 0
    /\ visits = <<>>
    /\ waveStart = [k \in Kinds |-> 0]
    /\ scanSlots = [h \in Hosts |-> 0]
    /\ scanAt = 0
    /\ passes = {}
    /\ iter = 0 /\ waits = 0

InitEta ==
    /\ GameAtRest
    /\ SchedulerAtRest
    /\ LibAtRest
    /\ envHackTime \in EtaHackTimes
    /\ now \in EtaTimes
    /\ worker = NoWorker
    /\ pc = "eta"

etaFrame == <<env, lib, forceRun, status, pidWeaken, pidGrow, botnet, freeSlots, maxSlots,
              runGrows, runWeaken, weakThreads, growThreads, remainingThreads, i, wakeAt,
              visits, waveStart, scanSlots, passes, iter, waits>>

\* lines 384 and 392-408 with runWeaken = 0 and runGrows = 0
ArmWaves ==
    /\ pc = "eta"
    /\ hackTime' = envHackTime
    /\ scanAt' = now
    /\ etaWeaken' = EtaWeakenAt(now, envHackTime)
    /\ etaGrow' = EtaGrowAt(now, envHackTime)
    /\ pc' = "armed"
    /\ UNCHANGED etaFrame

\* the statements of lines 397 and 406 once more
RoundAgain ==
    /\ pc = "armed"
    /\ etaWeaken' = RoundEta(etaWeaken)
    /\ etaGrow' = RoundEta(etaGrow)
    /\ pc' = "rounded twice"
    /\ UNCHANGED <<etaFrame, hackTime, scanAt>>

NextEtaSpec == ArmWaves \/ RoundAgain

SpecEta == InitEta /\ [][NextEtaSpec]_vars

OnGrid(t) == t % ETA_GRID_MS = 0

TicksPerMs == 2
\* the largest argument and clock reading of a worker, in ticks
MaxWorkerTicks == 7
WorkerTicks == 0 .. MaxWorkerTicks

HackScript == "src/bin.hack.js"
WorkerScripts == {ScriptOf("grow"), ScriptOf("weaken"), HackScript}

WholeMs(t) == t % TicksPerMs = 0
\* Math.floor, of a number of ticks
FloorMs(t) == (t \div TicksPerMs) * TicksPerMs

\* bin.grow.js and bin.weaken.js read Date.now() and floor the delay; bin.hack.js
\* reads performance.now() and does not
UsesDateNow(script) == script # HackScript

\* if (operationTime && endTime)
Timed(operationTime, endTime) == operationTime # 0 /\ endTime # 0

\* (mutant: the delay is not clamped)
RawDelay_Unclamped(operationTime, endTime, clock) == endTime - clock - operationTime
\* Math.max(0, endTime - now - operationTime)
RawDelay(operationTime, endTime, clock) == Max(0, endTime - clock - operationTime)

\* the additionalMsec handed to ns.grow, ns.weaken or ns.hack
WorkerDelay(script, operationTime, endTime, clock) ==
    IF UsesDateNow(script)
    THEN FloorMs(RawDelay(operationTime, endTime, clock))
    ELSE RawDelay(operationTime, endTime, clock)

\* the workers as they can be started: any arguments, the clock of the script
WorkerStarts ==
    {w \in [pc : {"start"}, script : WorkerScripts, operationTime : WorkerTicks,
            endTime : WorkerTicks, clock : WorkerTicks, timed : {FALSE}, delay : {0}] :
        UsesDateNow(w.script) => WholeMs(w.clock)}

InitWorker ==
    /\ GameAtRest
    /\ SchedulerAtRest
    /\ LibAtRest
    /\ envHackTime = ShortestHackTime
    /\ now \in StartTimes
    /\ pc = "worker"
    /\ worker \in WorkerStarts

workerFrame == <<lib, timeOrigin, net, exists, root, maxRam, usedRam, hasScript, procs, envMoney, envSec,
                 envHackTime, now, sleepLate, loc, obs>>

\* main(ns) up to the call of the operation
WorkerMain ==
    /\ worker.pc = "start"
    /\ worker' =
          IF Timed(worker.operationTime, worker.endTime)
          THEN [worker EXCEPT !.pc = "operating", !.timed = TRUE,
                              !.delay = WorkerDelay(worker.script, worker.operationTime,
                                                    worker.endTime, worker.clock)]
          ELSE [worker EXCEPT !.pc = "operating"]
    /\ UNCHANGED workerFrame

NextWorker == WorkerMain

SpecWorker == InitWorker /\ [][NextWorker]_vars

\* a worker that was given a duration and an end time has called its operation
TimedWorker == worker.pc = "operating" /\ worker.timed
\* the time left until the end time, and what is left of it after the operation
Remaining == worker.endTime - worker.clock
Spare == Remaining - worker.operationTime

C20_Clamped == TimedWorker /\ worker.operationTime > Remaining /\ worker.delay = 0

(***************************************************************************)
(* One wave per kind from the scheduler to its workers: the ETAs are       *)
(* computed (lines 390-408), then the workers are started one after the    *)
(* other (lines 418-437) while the clock goes on, and each worker's main() *)
(* computes its delay from the arguments and its own clock.               *)
(***************************************************************************)
\* the workers started in the passes that are followed
MaxWaveWorkers == 3
\* the milliseconds that pass at most between the scan and the last launch
MaxLaunchLag == 3

InitWave ==
    /\ GameAtRest
    /\ SchedulerAtRest
    /\ LibAtRest
    /\ envHackTime \in HackTimes
    /\ now \in StartTimes
    /\ worker = NoWorker
    /\ pc = "eta"

waveFrame == <<lib, net, exists, root, maxRam, usedRam, hasScript, envMoney, envSec, envHackTime,
               sleepLate, worker, timeOrigin, loc, obs>>

DurationOf(kind) == IF kind = "grow" THEN GrowDuration(hackTime) ELSE WeakenDuration(hackTime)
EndArgOf(kind)   == IF kind = "grow" THEN GrowEndArg ELSE WeakenEndArg

\* the clock a worker script reads, as a point of performance.now()
ClockOf(script, t) == IF UsesDateNow(script) THEN t + timeOrigin ELSE t

\* the delay main() computes for whole-millisecond arguments, in ms
DelayMs(script, operationTime, endTime, clock) ==
    WorkerDelay(script, operationTime * TicksPerMs, endTime * TicksPerMs,
                clock * TicksPerMs) \div TicksPerMs

\* ns.exec(script, bot, n, target, duration, eta) and the start of the script
WaveLaunch(kind) ==
    /\ pc = "armed"
    /\ Len(procs) < MaxWaveWorkers
    /\ LET script == ScriptOf(kind)
           clock  == ClockOf(script, now)
       IN procs' = Append(procs,
                     [script |-> script, host |-> "home", threads |-> 1,
                      duration |-> DurationOf(kind), eta |-> EndArgOf(kind), live |-> TRUE,
                      start |-> now, clock |-> clock,
                      delay |-> DelayMs(script, DurationOf(kind), EndArgOf(kind), clock)])
    /\ UNCHANGED <<waveFrame, now>>

\* time passes between two launches
WaveTick ==
    /\ pc = "armed"
    /\ now < scanAt + MaxLaunchLag
    /\ now' = now + 1
    /\ UNCHANGED <<waveFrame, procs>>

NextWave ==
    \/ ArmWaves
    \/ \E kind \in Kinds : WaveLaunch(kind)
    \/ WaveTick

SpecWave == InitWave /\ [][NextWave]_vars

\* when the operation of a started worker ends, on the scheduler's clock
Completion(p) == procs[p].start + procs[p].delay + procs[p].duration

\* the worker can still meet its end time when it starts
InTime(p) == procs[p].start + procs[p].duration <= procs[p].eta

\* C21: every worker of a wave that is started in time completes at the end-time
\* argument the scheduler gave it, so any two workers of one wave complete at the
\* same instant, whenever each of them was launched.
C21_SameCompletion ==
    /\ \A p \in 1 .. Len(procs) : InTime(p) => Completion(p) = procs[p].eta
    /\ \A p, q \in 1 .. Len(procs) :
          (procs[p].script = procs[q].script /\ InTime(p) /\ InTime(q)) =>
             Completion(p) = Completion(q)

\* what the workers of the scheduler do instead: Date.now() is far beyond every
\* end time, the delay is 0 and each worker ends its duration after its own start
C21_StartsAtOnce ==
    \A p \in 1 .. Len(procs) :
       /\ procs[p].delay = 0
       /\ Completion(p) = procs[p].start + procs[p].duration

\* two workers of one wave, launched at different times and both in time
C21_TwoLaunches ==
    \E p, q \in 1 .. Len(procs) :
       /\ procs[p].script = procs[q].script
       /\ procs[p].start < procs[q].start
       /\ InTime(p) /\ InTime(q)

(***************************************************************************)
(* Recorded processes that have ended                                      *)
(***************************************************************************)
\* the threads of all recorded processes of the kind, ended or not
RecordedThreads(kind) ==
    SumSeq([k \in 1 .. Len(PidsOf(kind)) |-> PidsOf(kind)[k].threads])

\* the threads of the recorded processes of the kind that still run
LiveRecordedThreads(kind) ==
    SumSeq([k \in 1 .. Len(PidsOf(kind)) |->
              IF procs[PidsOf(kind)[k].pid].live THEN PidsOf(kind)[k].threads ELSE 0])

\* C22 as claimed: while a wave is running, a recorded process of it that has died
\* keeps being counted with its recorded threads in the reserved capacity.
C22_DeadStillCounted ==
    [][ (pc = "scan" /\ pc' = "scanned") =>
           \A kind \in Kinds :
              RunOf(kind)' > 0 => RunOf(kind)' = RecordedThreads(kind)
      ]_vars

\* C22: every iteration polls each recorded process; one that has died counts 0 from
\* then on, while its entry stays in the list; the ETA and the list of a wave are
\* re-derived only in an iteration that finds no recorded process of it running.
C22_DeadNotCounted ==
    [][ (pc = "scan" /\ pc' = "scanned") =>
           /\ \A kind \in Kinds :
                 /\ RunOf(kind)' = LiveRecordedThreads(kind)
                 /\ RunOf(kind)' > 0 =>
                       (EtaOf(kind)' = EtaOf(kind) /\ PidsOf(kind)' = PidsOf(kind))
                 /\ RunOf(kind)' = 0 =>
                       (EtaOf(kind)' = FreshEta(kind)' /\ PidsOf(kind)' = <<>>)
           /\ maxSlots' = freeSlots' + LiveRecordedThreads("weaken")
                                     + LiveRecordedThreads("grow")
      ]_vars

\* a scan found a wave running of which one process had ended: fewer threads are
\* reserved than are recorded
C22_Witness ==
    /\ pc = "scanned"
    /\ \E kind \in Kinds :
          /\ RunOf(kind) > 0
          /\ SomeDead(kind)
          /\ RunOf(kind) < RecordedThreads(kind)

(***************************************************************************)
(* The arguments of the workers of a wave                                  *)
(***************************************************************************)
\* the processes of the current wave of the kind
WaveProcs(kind) == {p \in ProcsOf(kind) : p > waveStart[kind]}

\* the buffers taken off the ETA for the end-time argument: 3 for grow, 2 for weaken
EndBuffers(kind) == IF kind = "grow" THEN 3 ELSE 2

\* the arguments and threads of a launch are those of its visit
LaunchesAsAssigned ==
    \A k \in 1 .. Len(visits) :
       visits[k].pid > 0 =>
          /\ procs[visits[k].pid].threads = visits[k].n
          /\ procs[visits[k].pid].host = visits[k].bot
          /\ procs[visits[k].pid].script = ScriptOf(visits[k].kind)
          /\ visits[k].n = Min(visits[k].req, visits[k].slots)

\* the workers of a wave were given the same duration, hackTime times the
\* multiplier of the kind, and the same end time
SameArguments ==
    \A kind \in Kinds :
       /\ \A p \in WaveProcs(kind) :
             10 * procs[p].duration =
                hackTime * (IF kind = "grow" THEN GROW_TIME_MULTIPLIER_X10
                            ELSE 10 * WEAKEN_TIME_MULTIPLIER)
       /\ \A p, q \in WaveProcs(kind) :
             procs[p].duration = procs[q].duration /\ procs[p].eta = procs[q].eta

\* C23 as claimed: the workers of a wave get identical arguments, the end-time
\* argument is the wave's ETA, and each launch has the threads assigned to the host.
C23_EndArgIsEta ==
    /\ SameArguments
    /\ LaunchesAsAssigned
    /\ \A kind \in Kinds : \A p \in WaveProcs(kind) : procs[p].eta = EtaOf(kind)

\* C23: the workers of a wave get identical arguments and each launch has the
\* threads assigned to the host, but the end-time argument is the wave's ETA less
\* 60 ms for grow and less 40 ms for weaken, not the ETA itself.
C23_EndArgBeforeEta ==
    /\ SameArguments
    /\ LaunchesAsAssigned
    /\ \A kind \in Kinds :
          \A p \in WaveProcs(kind) :
             procs[p].eta = EtaOf(kind) - EndBuffers(kind) * TIMING_BUFFER_MS

\* a wave of two workers on different hosts with different thread counts
C23_Witness ==
    /\ pc = "dispatched"
    /\ \E kind \in Kinds :
          \E p, q \in WaveProcs(kind) :
             /\ procs[p].host # procs[q].host
             /\ procs[p].threads # procs[q].threads

(***************************************************************************)
(* The order of the two ETAs computed in one iteration                     *)
(***************************************************************************)
\* C24: for ETAs computed in the same iteration and every positive hack time the
\* end time of the grow workers (etaGrow - 60) is not later than the end time of
\* the weaken workers (etaWeaken - 40), and etaGrow <= etaWeaken.
C24_GrowBeforeWeaken ==
    (pc = "armed" /\ hackTime > 0) =>
       /\ GrowEndArg <= WeakenEndArg
       /\ etaGrow <= etaWeaken

\* the hack time from which on 0.8 * hackTime makes up for the extra grow buffer
GrowFirstFrom == (10 * TIMING_BUFFER_MS) \div (10 * WEAKEN_TIME_MULTIPLIER - GROW_TIME_MULTIPLIER_X10)

\* the order holds from a hack time of 25 ms on
C24_GrowBeforeWeakenIfSlow ==
    (pc = "armed" /\ hackTime >= GrowFirstFrom) =>
       /\ GrowEndArg <= WeakenEndArg
       /\ etaGrow <= etaWeaken

\* ETAs computed together for a short hack time, the grow ETA a grid step later
C24_GrowLater == pc = "armed" /\ hackTime > 0 /\ etaGrow = etaWeaken + ETA_GRID_MS

(***************************************************************************)
(* When a wave is dispatched                                               *)
(***************************************************************************)
\* the grow decision of line 419 and the weaken decision of line 430 have been taken
GrowDecided   == pc \in {"grow", "weakstart", "weaken", "dispatched"}
WeakenDecided == pc \in {"weaken", "dispatched"}

\* C25: grow workers are launched only in an iteration that found no recorded grow
\* process live and with the target's money below its maximum at the decision;
\* with the money at its maximum none is launched. A weaken wave is dispatched
\* whenever no weaken is live, whatever the security level.
C25_GrowNeedsMissingMoney ==
    /\ Dispatching =>
          /\ GrowVisits # <<>> => (PassEntered("grow") /\ runGrows = 0)
          /\ PassEntered("grow") => (runGrows = 0 /\ envMoney < TargetMaxMoney)
          /\ envMoney = TargetMaxMoney => (~PassEntered("grow") /\ GrowVisits = <<>>)
          /\ envMoney = TargetMaxMoney => pc # "grow"
    /\ WeakenDecided => (PassEntered("weaken") <=> runWeaken = 0)
    /\ (pc = "dispatched" /\ runWeaken = 0 /\ weakThreads > 0 /\ botnet # <<>>) =>
          WeakenVisits # <<>>

\* an iteration with the money at its maximum and the security at its minimum
\* started weaken workers and no grow worker, no grow being live
C25_Witness ==
    /\ pc = "dispatched"
    /\ envMoney = TargetMaxMoney /\ envSec = TargetMinSec
    /\ runGrows = 0 /\ runWeaken = 0
    /\ Started(WeakenVisits) > 0
    /\ GrowVisits = <<>>

(***************************************************************************)
(* The security reading behind the last weaken, lines 457-468              *)
(***************************************************************************)
\* C26: when the money is at its maximum after the wait of an iteration, the
\* scheduler waits until the weaken ETA before it reads the security level; the
\* reading used by the following loop-exit check is taken at a time >= etaWeaken,
\* so the loop never exits on a reading taken before the last weaken's end time.
C26_SecurityReadAfterWeaken ==
    /\ pc = "waitweaken" => (moneyDiff = 0 /\ wakeAt = etaWeaken)
    /\ (pc = "readsec" /\ moneyDiff = 0) => now >= etaWeaken
    /\ (pc = "guard" /\ iter > 0 /\ moneyDiff = 0) => now >= etaWeaken
    /\ (pc \in {"drain", "draining", "done"} /\ ~forceRun) =>
          /\ now >= etaWeaken
          /\ \A p \in ProcsOf("weaken") : procs[p].eta <= now

\* the security is read exactly at the weaken ETA, after a wait for a weaken wave
\* that was started with the money at its maximum
C26_Witness ==
    /\ pc = "readsec" /\ moneyDiff = 0
    /\ WaveProcs("weaken") # {}
    /\ now = etaWeaken
    /\ etaGrow < etaWeaken
    /\ waits >= 2

\* C27: with an existing target that is optimal at entry and without forceRun,
\* optimizeServer returns without a scan, a launch or a wait.
C27_OptimalAtEntryIsNoOp ==
    /\ (exists /\ ~forceRun /\ iter = 0 /\ pc # "entry" /\ AtOptimum) =>
          /\ pc \in {"guard", "drain", "done"}
          /\ NothingDone
          /\ now \in StartTimes
          /\ pc = "drain" => DrainWait <= 0
    /\ (pc = "scan" /\ iter = 1) => (forceRun \/ ~AtOptimum)
    /\ (pc = "guard" /\ iter = 0) => (actualSec = envSec /\ actualMoney = envMoney)

\* the run for a target that was optimal at entry has returned, nothing done
C27_Witness ==
    /\ pc = "done" /\ exists /\ ~forceRun
    /\ AtOptimum /\ envSec = TargetMinSec /\ envMoney = TargetMaxMoney
    /\ iter = 0 /\ waits = 0 /\ procs = <<>>

(***************************************************************************)
(* The hosts that are given workers                                        *)
(***************************************************************************)
\* the hosts that a set of hosts reaches through ns.scan
RECURSIVE ScanClosure(_)
ScanClosure(S) ==
    LET T == S \cup {n \in Hosts : \E h \in S : n \in Range(net[h])}
    IN IF T = S THEN S ELSE ScanClosure(T)

ReachableHosts == ScanClosure({"home"})

\* C28: workers are launched only on hosts that are reachable from home and were
\* reported rooted in the scan of the iteration; a host without root access is never
\* handed to ns.exec, and the host list is in order of descending maximum RAM.
C28_OnlyRootedReachable ==
    /\ \A k \in 1 .. Len(visits) :
          /\ visits[k].bot \in ReachableHosts
          /\ root[visits[k].bot]
          /\ \E j \in 1 .. Len(botnet) : botnet[j] = visits[k].bot
    /\ \A p \in 1 .. Len(procs) :
          procs[p].host \in ReachableHosts /\ root[procs[p].host]
    /\ Dispatching =>
          /\ Range(botnet) = {h \in ReachableHosts : root[h]}
          /\ Len(botnet) = Cardinality(Range(botnet))
          /\ \A j \in 1 .. Len(botnet) - 1 : maxRam[botnet[j]] >= maxRam[botnet[j + 1]]

\* workers were launched while a reachable host had no root access and the biggest
\* rooted host, free, was out of reach
C28_Witness ==
    /\ pc = "dispatched"
    /\ \E k \in 1 .. Len(visits) : visits[k].pid > 0
    /\ \E h \in ReachableHosts : ~root[h]
    /\ \E h \in Hosts \ ReachableHosts :
          /\ root[h] /\ usedRam[h] = 0
          /\ \A g \in Hosts : maxRam[g] <= maxRam[h]

(***************************************************************************)
(* crawler, pass by pass                                                   *)
(*                                                                         *)
(* The while loop of crawler over networks of every shape: with links in   *)
(* one direction, in both directions, to the host itself, and with hosts   *)
(* that nothing leads to.  The loop has no await: once called it runs on,  *)
(* which is the fairness of SpecCrawl.                                     *)
(***************************************************************************)
\* what ns.scan may return for a host
ScanResults == {<<>>, <<"home">>, <<"n1">>, <<"n2">>, <<"n3">>,
                <<"n1", "n2">>, <<"n2", "n1">>, <<"home", "n3">>}

Graphs == [Hosts -> ScanResults]

InitCrawl ==
    /\ net \in Graphs
    /\ exists = TRUE
    /\ usedRam = AllFree /\ root = AllHosts /\ hasScript = AllHosts
    /\ maxRam = RamOf
    /\ procs = <<>>
    /\ envMoney = TargetMaxMoney
    /\ envSec = TargetMinSec
    /\ envHackTime = ShortestHackTime
    /\ now = 0
    /\ sleepLate = 0
    /\ timeOrigin = PageLoaded
    /\ worker = NoWorker
    /\ SchedulerAtRest
    /\ RingAtRest
    /\ pc = "crawler"
    \* const visited = new Set(); const heap = ['home']
    /\ visited = <<>>
    /\ heap = <<"home">>
    /\ scanned = [h \in Hosts |-> 0]

crawlFrame == <<env, ring, forceRun, status, waves, iterLocals, remainingThreads, i, wakeAt, obs>>

\* a pass that takes a new host off the heap: it is added, scanned, its neighbours pushed
CrawlVisit ==
    /\ pc = "crawler"
    /\ heap # <<>>
    /\ Last(heap) \notin Range(visited)
    /\ visited' = CrawlPass(net, visited, heap).visited
    /\ heap' = CrawlPass(net, visited, heap).heap
    /\ scanned' = [scanned EXCEPT ![Last(heap)] = @ + 1]
    /\ UNCHANGED <<crawlFrame, pc>>

\* a pass that takes a known host off the heap
CrawlSkip ==
    /\ pc = "crawler"
    /\ heap # <<>>
    /\ Last(heap) \in Range(visited)
    /\ visited' = CrawlPass(net, visited, heap).visited
    /\ heap' = CrawlPass(net, visited, heap).heap
    /\ UNCHANGED <<crawlFrame, pc, scanned>>

\* return Array.from(visited)
CrawlReturn ==
    /\ pc = "crawler"
    /\ heap = <<>>
    /\ pc' = "crawled"
    /\ UNCHANGED <<crawlFrame, crawl>>

NextCrawl == CrawlVisit \/ CrawlSkip \/ CrawlReturn

SpecCrawl == InitCrawl /\ [][NextCrawl]_vars /\ WF_vars(NextCrawl)

\* the returned array lists exactly the hosts reachable from home, each once
CrawlResultRight ==
    /\ Range(visited) = ReachableHosts
    /\ Len(visited) = Cardinality(ReachableHosts)
    /\ visited = crawler(net)

\* C29: on every network, cycles and links in both directions included, crawler
\* returns; what it returns is exactly the set of hosts reachable from home through
\* ns.scan, home included, each host once; and no host is scanned more than once.
C29_CrawlerTerminates ==
    /\ <>(pc = "crawled")
    /\ [](pc = "crawled" => CrawlResultRight)
    /\ [](\A h \in Hosts : scanned[h] <= 1)

\* crawler has returned from a network where home and n1 list each other, n1 is
\* listed twice, n3 lists itself and nothing leads to n3
C29_Witness ==
    /\ pc = "crawled"
    /\ net["home"] = <<"n1", "n2">>
    /\ net["n1"] = <<"home">>
    /\ net["n2"] = <<"n1">>
    /\ net["n3"] = <<"n3">>
    /\ visited = <<"home", "n2", "n1">>

(***************************************************************************)
(* RingBuffer                                                              *)
(*                                                                         *)
(* One RingBuffer after its constructor, under any sequence of add and     *)
(* clear; current, previous and isEmpty only read.                         *)
(***************************************************************************)
Sizes == 1 .. MaxSize
Elements == {"a", "b"}

\* constructor(size) with a positive whole size
InitRing ==
    /\ GameAtRest
    /\ timeOrigin = PageLoaded
    /\ SchedulerAtRest
    /\ CrawlAtRest
    /\ envHackTime = ShortestHackTime
    /\ now = 0
    /\ worker = NoWorker
    /\ pc = "ring"
    /\ size \in Sizes
    /\ buffer = [k \in 0 .. size - 1 |-> Null]
    /\ currentIndex = 0
    /\ count = 0
    /\ added = <<>>

ringFrame == <<env, loc, obs, crawl>>

\* (mutant: the index runs on without wrapping)
NextIndex_NoWrap(index) == index + 1
\* (this.currentIndex + 1) % this.size
NextIndex(index) == (index + 1) % size

add(element) ==
    /\ Len(added) < MaxAdds
    /\ buffer' = [buffer EXCEPT ![currentIndex] = element]
    /\ currentIndex' = NextIndex(currentIndex)
    /\ count' = IF count < size THEN count + 1 ELSE count
    /\ added' = Append(added, element)
    /\ UNCHANGED <<ringFrame, size>>

clear ==
    /\ buffer' = [k \in DOMAIN buffer |-> Null]
    /\ currentIndex' = 0
    /\ count' = 0
    /\ added' = <<>>
    /\ UNCHANGED <<ringFrame, size>>

current ==
    IF count = 0 THEN Null
    ELSE LET lastIndex == (currentIndex - 1 + size) % size
         IN buffer[lastIndex]

previous(steps) ==
    IF steps < 1 \/ steps > count THEN Null
    ELSE LET index == (currentIndex - steps + size) % size
         IN buffer[index]

isEmpty == count = 0

NextRing == (\E element \in Elements : add(element)) \/ clear

SpecRing == InitRing /\ [][NextRing]_vars

\* the values of steps that previous is asked for
StepsAsked == -1 .. MaxSize + 2

\* how many of the added elements the buffer still holds
Kept == IF Len(added) < size THEN Len(added) ELSE size

\* the slots that hold an element
Occupied == {index \in DOMAIN buffer : buffer[index] # Null}

====
